---- MODULE Spec2Model ----
(***************************************************************************)
(* Model of data/legacy_project/main.cpp: the legacy "Bank System" entry   *)
(* point.  main() prints a startup line and calls main_loop(); main_loop() *)
(* runs process_client() and then, while global_counter < 10, increments   *)
(* the counter and calls itself; process_client() calls the three          *)
(* collaborators log_transaction, calculate_interest, update_balance.      *)
(*                                                                         *)
(* The program is single threaded.  Its state is the global counter, the   *)
(* call stack (one frame per active invocation, each with the statement it *)
(* will execute next), the lines written to std::cout and the exit status. *)
(* trace, started, cycles, run, hist and prev are history variables: they  *)
(* record what the program did and are never read by it.                   *)
(***************************************************************************)
EXTENDS Integers, Sequences, FiniteSets

VARIABLES
    global_counter,   \* int global_counter (main.cpp:6)
    threshold,        \* the literal the counter is compared with (main.cpp:21)
    stack,            \* call stack, innermost frame last: [fn, pc]
    out,              \* lines written to std::cout
    exit_status,      \* <<>> while the process runs, <<s>> once it exited with s
    trace,            \* history: collaborator calls made, in order
    started,          \* history: process_client() invocations begun
    cycles,           \* history: process_client() invocations returned
    run,              \* history: ordinal of the process run
    hist,             \* history: program states of the current run, in order
    prev              \* history: hist of the previous run of the process

vars == <<global_counter, threshold, stack, out, exit_status,
          trace, started, cycles, run, hist, prev>>

----------------------------------------------------------------------------
(* Bounds of the model *)

\* largest threshold tried when the threshold is treated as a parameter
MaxThreshold == 12
\* number of process runs made one after the other
MaxRuns == 2
\* call-stack frames available; the program itself needs Threshold + 4
StackLimit == 20

\* values of global_counter tried at the start: -LowCounter..MaxCounter
LowCounter == 2
MaxCounter == 12

(* Program constants *)

\* if (global_counter < 10)
Threshold == 10

StartupLine == "Starting Bank System..."

----------------------------------------------------------------------------
(* The call stack *)

Frame(f, p) == [fn |-> f, pc |-> p]

Top == stack[Len(stack)]

At(f, p) == stack # <<>> /\ Top = Frame(f, p)

\* the running invocation moves on to statement p
Goto(p) == [stack EXCEPT ![Len(stack)].pc = p]

\* the running invocation calls f and will resume at statement p
Call(f, entry, p) == Append(Goto(p), Frame(f, entry))

\* the running invocation returns to its caller
Return == SubSeq(stack, 1, Len(stack) - 1)

CanCall == Len(stack) < StackLimit

\* the program state, as recorded in hist
View == [counter |-> global_counter, stack |-> stack, out |-> out,
         exit |-> exit_status, trace |-> trace]

Log == hist' = Append(hist, View')

----------------------------------------------------------------------------
(* Initial states *)

\* static initialisation of the process image, then entry into main()
Fresh ==
    /\ global_counter = 0
    /\ stack = <<Frame("main", "print")>>
    /\ out = <<>>
    /\ exit_status = <<>>
    /\ trace = <<>>
    /\ started = 0
    /\ cycles = 0

Init ==
    /\ Fresh
    /\ threshold = Threshold
    /\ run = 1
    /\ hist = <<View>>
    /\ prev = <<>>

\* the threshold as a parameter T
InitT ==
    /\ Fresh
    /\ threshold \in 0..MaxThreshold
    /\ run = 1
    /\ hist = <<View>>
    /\ prev = <<>>

\* the counter holds a value c that is not fresh when main() is entered
InitC ==
    /\ global_counter \in (0 - LowCounter)..MaxCounter
    /\ stack = <<Frame("main", "print")>>
    /\ out = <<>>
    /\ exit_status = <<>>
    /\ trace = <<>>
    /\ started = 0
    /\ cycles = 0
    /\ threshold = Threshold
    /\ run = 1
    /\ hist = <<View>>
    /\ prev = <<>>

----------------------------------------------------------------------------
(* main() *)

\* variant: the startup line is not written
MainPrintSilent ==
    /\ At("main", "print")
    /\ stack' = Goto("call_loop")
    /\ UNCHANGED <<global_counter, threshold, out, exit_status, trace,
                   started, cycles, run, prev>>
    /\ Log

\* std::cout << "Starting Bank System..." << std::endl;
MainPrint ==
    /\ At("main", "print")
    /\ out' = Append(out, StartupLine)
    /\ stack' = Goto("call_loop")
    /\ UNCHANGED <<global_counter, threshold, exit_status, trace, started,
                   cycles, run, prev>>
    /\ Log

\* main_loop();
MainCallLoop ==
    /\ At("main", "call_loop")
    /\ CanCall
    /\ stack' = Call("main_loop", "process", "return")
    /\ UNCHANGED <<global_counter, threshold, out, exit_status, trace,
                   started, cycles, run, prev>>
    /\ Log

\* main_loop(); a second time, once the first invocation has returned: the
\* counter is left as it is, the history starts again for this invocation
MainCallAgain ==
    /\ At("main", "return")
    /\ run < MaxRuns
    /\ CanCall
    /\ stack' = Call("main_loop", "process", "return")
    /\ trace' = <<>>
    /\ started' = 0
    /\ cycles' = 0
    /\ run' = run + 1
    /\ prev' = hist
    /\ UNCHANGED <<global_counter, threshold, out, exit_status>>
    /\ hist' = <<View'>>

\* variant: return 1;
MainReturnFailure ==
    /\ At("main", "return")
    /\ stack' = Return
    /\ exit_status' = <<1>>
    /\ UNCHANGED <<global_counter, threshold, out, trace, started, cycles,
                   run, prev>>
    /\ Log

\* return 0;
MainReturn ==
    /\ At("main", "return")
    /\ stack' = Return
    /\ exit_status' = <<0>>
    /\ UNCHANGED <<global_counter, threshold, out, trace, started, cycles,
                   run, prev>>
    /\ Log

----------------------------------------------------------------------------
(* main_loop() *)

\* process_client();
LoopCallProcess ==
    /\ At("main_loop", "process")
    /\ CanCall
    /\ stack' = Call("process_client", "log", "check")
    /\ started' = started + 1
    /\ UNCHANGED <<global_counter, threshold, out, exit_status, trace,
                   cycles, run, prev>>
    /\ Log

\* variant: if (global_counter <= 10)
ContinueInclusive == global_counter <= threshold

\* variant: if (global_counter + 1 < 10)
ContinueBelow == global_counter + 1 < threshold

\* variant: if (global_counter != 10)
ContinueNotEqual == global_counter # threshold

\* the condition of: if (global_counter < 10)
Continue == global_counter < threshold

\* the condition holds: enter the branch
LoopCheckTrue ==
    /\ At("main_loop", "check")
    /\ Continue
    /\ stack' = Goto("increment")
    /\ UNCHANGED <<global_counter, threshold, out, exit_status, trace,
                   started, cycles, run, prev>>
    /\ Log

\* the condition fails: fall through to the end of the function
LoopCheckFalse ==
    /\ At("main_loop", "check")
    /\ ~Continue
    /\ stack' = Goto("return")
    /\ UNCHANGED <<global_counter, threshold, out, exit_status, trace,
                   started, cycles, run, prev>>
    /\ Log

\* variant: global_counter += 2;
LoopIncrementTwice ==
    /\ At("main_loop", "increment")
    /\ global_counter' = global_counter + 2
    /\ stack' = Goto("recurse")
    /\ UNCHANGED <<threshold, out, exit_status, trace, started, cycles,
                   run, prev>>
    /\ Log

\* variant: the increment is missing
LoopNoIncrement ==
    /\ At("main_loop", "increment")
    /\ stack' = Goto("recurse")
    /\ UNCHANGED <<global_counter, threshold, out, exit_status, trace,
                   started, cycles, run, prev>>
    /\ Log

\* global_counter++;
LoopIncrement ==
    /\ At("main_loop", "increment")
    /\ global_counter' = global_counter + 1
    /\ stack' = Goto("recurse")
    /\ UNCHANGED <<threshold, out, exit_status, trace, started, cycles,
                   run, prev>>
    /\ Log

\* main_loop();
LoopRecurse ==
    /\ At("main_loop", "recurse")
    /\ CanCall
    /\ stack' = Call("main_loop", "process", "return")
    /\ UNCHANGED <<global_counter, threshold, out, exit_status, trace,
                   started, cycles, run, prev>>
    /\ Log

\* variant: the counter is reset when an invocation ends
LoopReturnReset ==
    /\ At("main_loop", "return")
    /\ stack' = Return
    /\ global_counter' = 0
    /\ UNCHANGED <<threshold, out, exit_status, trace, started, cycles,
                   run, prev>>
    /\ Log

\* } of main_loop
LoopReturn ==
    /\ At("main_loop", "return")
    /\ stack' = Return
    /\ UNCHANGED <<global_counter, threshold, out, exit_status, trace,
                   started, cycles, run, prev>>
    /\ Log

----------------------------------------------------------------------------
(* process_client() *)

\* variant: the call of log_transaction is missing
CallLogTransactionSkipped ==
    /\ At("process_client", "log")
    /\ stack' = Goto("interest")
    /\ UNCHANGED <<global_counter, threshold, out, exit_status, trace,
                   started, cycles, run, prev>>
    /\ Log

\* log_transaction();
CallLogTransaction ==
    /\ At("process_client", "log")
    /\ CanCall
    /\ stack' = Call("log_transaction", "body", "interest")
    /\ trace' = Append(trace, "log_transaction")
    /\ UNCHANGED <<global_counter, threshold, out, exit_status, started,
                   cycles, run, prev>>
    /\ Log

\* variant: update_balance() is called in the place of calculate_interest()
CallCalculateInterestWrong ==
    /\ At("process_client", "interest")
    /\ CanCall
    /\ stack' = Call("update_balance", "body", "balance")
    /\ trace' = Append(trace, "update_balance")
    /\ UNCHANGED <<global_counter, threshold, out, exit_status, started,
                   cycles, run, prev>>
    /\ Log

\* calculate_interest();
CallCalculateInterest ==
    /\ At("process_client", "interest")
    /\ CanCall
    /\ stack' = Call("calculate_interest", "body", "balance")
    /\ trace' = Append(trace, "calculate_interest")
    /\ UNCHANGED <<global_counter, threshold, out, exit_status, started,
                   cycles, run, prev>>
    /\ Log

\* variant: the next cycle is started from inside process_client()
CallUpdateBalanceReentrant ==
    /\ At("process_client", "balance")
    /\ CanCall
    /\ stack' = Call("main_loop", "process", "return")
    /\ trace' = Append(trace, "update_balance")
    /\ UNCHANGED <<global_counter, threshold, out, exit_status, started,
                   cycles, run, prev>>
    /\ Log

\* update_balance();
CallUpdateBalance ==
    /\ At("process_client", "balance")
    /\ CanCall
    /\ stack' = Call("update_balance", "body", "return")
    /\ trace' = Append(trace, "update_balance")
    /\ UNCHANGED <<global_counter, threshold, out, exit_status, started,
                   cycles, run, prev>>
    /\ Log

\* } of process_client
ProcessReturn ==
    /\ At("process_client", "return")
    /\ stack' = Return
    /\ cycles' = cycles + 1
    /\ UNCHANGED <<global_counter, threshold, out, exit_status, trace,
                   started, run, prev>>
    /\ Log

----------------------------------------------------------------------------
(* The collaborators.  main.cpp only declares them; each is a no-argument  *)
(* operation without a result that the caller waits for.                   *)

Collaborators == {"log_transaction", "calculate_interest", "update_balance"}

CollaboratorBody(f) ==
    /\ At(f, "body")
    /\ stack' = Return
    /\ UNCHANGED <<global_counter, threshold, out, exit_status, trace,
                   started, cycles, run, prev>>
    /\ Log

log_transaction == CollaboratorBody("log_transaction")

calculate_interest == CollaboratorBody("calculate_interest")

update_balance == CollaboratorBody("update_balance")

----------------------------------------------------------------------------
(* Specifications *)

Exited == exit_status # <<>>

\* variant: the counter survives from one run to the next
RestartKeepCounter ==
    /\ Exited
    /\ run < MaxRuns
    /\ stack' = <<Frame("main", "print")>>
    /\ out' = <<>>
    /\ exit_status' = <<>>
    /\ trace' = <<>>
    /\ started' = 0
    /\ cycles' = 0
    /\ run' = run + 1
    /\ prev' = hist
    /\ UNCHANGED <<global_counter, threshold>>
    /\ hist' = <<View'>>

\* the process is started again: a new image, statically initialised
Restart ==
    /\ Exited
    /\ run < MaxRuns
    /\ global_counter' = 0
    /\ stack' = <<Frame("main", "print")>>
    /\ out' = <<>>
    /\ exit_status' = <<>>
    /\ trace' = <<>>
    /\ started' = 0
    /\ cycles' = 0
    /\ run' = run + 1
    /\ prev' = hist
    /\ hist' = <<View'>>
    /\ UNCHANGED threshold

Next ==
    \/ MainPrint
    \/ MainCallLoop
    \/ MainReturn
    \/ LoopCallProcess
    \/ LoopCheckTrue
    \/ LoopCheckFalse
    \/ LoopIncrement
    \/ LoopRecurse
    \/ LoopReturn
    \/ CallLogTransaction
    \/ CallCalculateInterest
    \/ CallUpdateBalance
    \/ ProcessReturn
    \/ log_transaction
    \/ calculate_interest
    \/ update_balance

NextRerun == Next \/ Restart

\* one run of the process, threshold 10
Spec == Init /\ [][Next]_vars

\* the same; a running process always takes its next step
FairSpec == Init /\ [][Next]_vars /\ WF_vars(Next)

\* one run of the process for each threshold 0..MaxThreshold
SpecT == InitT /\ [][Next]_vars

\* MaxRuns runs of the process, one after the other
SpecRerun == Init /\ [][NextRerun]_vars

NextC == Next \/ MainCallAgain

\* main_loop() invoked with any counter value, up to MaxRuns times in a row
SpecC == InitC /\ [][NextC]_vars

----------------------------------------------------------------------------
(* Vocabulary of the properties *)

\* number of active invocations of f
Depth(f) == Cardinality({i \in DOMAIN stack : stack[i].fn = f})

\* a cycle is in progress
InCycle == Depth("process_client") > 0

\* the check of some invocation has failed: every active main_loop() is at
\* its end, or all of them have returned
LoopDone ==
    /\ started > 0
    /\ \A i \in DOMAIN stack :
          stack[i].fn = "main_loop" => stack[i].pc = "return"

\* number of calls of collaborator f so far
CallCount(f) == Cardinality({i \in DOMAIN trace : trace[i] = f})

\* the order of the calls in process_client()
Pipeline == <<"log_transaction", "calculate_interest", "update_balance">>

\* the calls of n whole cycles
FullTrace(n) == [i \in 1..(3 * n) |-> Pipeline[((i - 1) % 3) + 1]]

----------------------------------------------------------------------------
(* Properties *)

\* C1: in a run from global_counter = 0 with threshold 10, process_client()
\* is invoked exactly 11 times: never more than 11 invocations are begun or
\* completed, and a run that has ended has completed exactly 11.
CyclesExactlyEleven ==
    /\ started <= 11
    /\ cycles <= started
    /\ Exited => (started = 11 /\ cycles = 11)

CyclesExactlyElevenWitness == Exited /\ started = 11 /\ cycles = 11

\* C2: global_counter is 10 when the loop terminates, is at most 10 in every
\* reachable state, and never decreases from one state to the next.
CounterBounded ==
    /\ [](global_counter <= 10)
    /\ [](LoopDone => global_counter = 10)
    /\ [][global_counter' >= global_counter]_vars

CounterBoundedWitness ==
    LoopDone /\ Depth("main_loop") = 11 /\ global_counter = 10

\* C3: the collaborator calls come in the order log_transaction,
\* calculate_interest, update_balance, cycle after cycle: the trace of calls
\* is always a prefix of that repeated pattern, it holds whole cycles
\* whenever no cycle is in progress, one triple per completed cycle.
PipelineOrder ==
    /\ \A i \in DOMAIN trace : trace[i] = Pipeline[((i - 1) % 3) + 1]
    /\ ~InCycle => Len(trace) = 3 * cycles
    /\ InCycle => Len(trace) \in (3 * cycles)..(3 * cycles + 3)

PipelineOrderWitness ==
    /\ At("update_balance", "body")
    /\ Len(trace) = 6
    /\ cycles = 1

\* C4: every run terminates: a process that has not exited always has a next
\* step to take, and eventually it has exited with status 0 with every
\* invocation returned, and stays so.
Terminates ==
    /\ [](Exited \/ ENABLED Next)
    /\ <>[](exit_status = <<0>> /\ stack = <<>>)

TerminatesWitness == exit_status = <<0>> /\ stack = <<>> /\ LoopDone

\* C5: each collaborator is called exactly once per cycle: at the end of
\* every cycle the three call counts equal the number of completed cycles,
\* and they are all 11 when the run has ended.
OncePerCycle ==
    /\ ~InCycle => \A f \in Collaborators : CallCount(f) = cycles
    /\ At("process_client", "return") =>
          \A f \in Collaborators : CallCount(f) = cycles + 1
    /\ Exited => \A f \in Collaborators : CallCount(f) = 11

OncePerCycleWitness ==
    /\ Exited
    /\ \A f \in Collaborators : CallCount(f) = 11

\* C6: for every threshold T in 0..MaxThreshold a run executes exactly T + 1
\* cycles and ends with global_counter = T; for T = 0 exactly one cycle runs
\* and the counter is never incremented.
CyclesThresholdPlusOne ==
    /\ cycles <= threshold + 1
    /\ Exited => (cycles = threshold + 1 /\ global_counter = threshold)
    /\ threshold = 0 => (global_counter = 0 /\ started <= 1)
    /\ (threshold = 0 /\ LoopDone) => cycles = 1

CyclesThresholdPlusOneWitness ==
    Exited /\ threshold = 0 /\ cycles = 1 /\ global_counter = 0

\* C7: a re-run of the process from a fresh start steps through the same
\* sequence of program states as the run before it, and every run ends with
\* 11 cycles and global_counter = 10.
Deterministic ==
    /\ run > 1 =>
          /\ Len(hist) <= Len(prev)
          /\ hist = SubSeq(prev, 1, Len(hist))
    /\ (run > 1 /\ Exited) => hist = prev
    /\ Exited => (cycles = 11 /\ global_counter = 10)

DeterministicWitness ==
    run = 2 /\ Exited /\ hist = prev /\ cycles = 11 /\ global_counter = 10

\* C8: the startup line is written exactly once, before main_loop() begins
\* and so before the first collaborator call; the exit with status 0 comes
\* only after the last cycle has completed.
StartupThenLoopThenExit ==
    /\ Len(out) <= 1
    /\ (Depth("main_loop") > 0 \/ started > 0 \/ trace # <<>>) =>
          out = <<StartupLine>>
    /\ Exited =>
          /\ exit_status = <<0>>
          /\ out = <<StartupLine>>
          /\ stack = <<>>
          /\ cycles = started
          /\ cycles = 11

StartupThenLoopThenExitWitness ==
    /\ trace = <<"log_transaction">>
    /\ At("log_transaction", "body")
    /\ out = <<StartupLine>>

\* C9: cycles are totally ordered: at most one cycle is in progress, and
\* whenever log_transaction() of a cycle is called every earlier cycle has
\* completed, its update_balance() having returned.
CyclesTotallyOrdered ==
    /\ Depth("process_client") <= 1
    /\ started - cycles = Depth("process_client")
    /\ \A f \in Collaborators : Depth(f) <= 1
    /\ At("log_transaction", "body") =>
          /\ CallCount("update_balance") = CallCount("log_transaction") - 1
          /\ cycles = CallCount("log_transaction") - 1
          /\ Depth("update_balance") = 0

CyclesTotallyOrderedWitness ==
    /\ At("log_transaction", "body")
    /\ Depth("main_loop") = 3
    /\ cycles = 2

\* C10: a run with threshold 10 makes exactly the 33 collaborator calls of
\* 11 cycles, each cycle its three steps in order, and ends with
\* global_counter = 10 and exit status 0.
EndToEnd ==
    Exited =>
        /\ trace = FullTrace(11)
        /\ Len(trace) = 33
        /\ cycles = 11
        /\ global_counter = 10
        /\ exit_status = <<0>>

EndToEndWitness ==
    Exited /\ Len(trace) = 33 /\ global_counter = 10 /\ exit_status = <<0>>

\* the steps of the current run, each named by the index of its first state
Steps == 1..(Len(hist) - 1)

\* the steps that wrote a new value to global_counter
Writes == {i \in Steps : hist[i + 1].counter # hist[i].counter}

\* the steps that added exactly 1 to global_counter
Increments == {i \in Steps : hist[i + 1].counter = hist[i].counter + 1}

\* the statement a recorded program state was about to execute
Running(v) == v.stack[Len(v.stack)]

\* C11 as stated: the counter is written only by main_loop(), by increments
\* of 1, and the number of increments in a run equals the number of completed
\* cycles.
IncrementAfterEveryCycle ==
    /\ Writes = Increments
    /\ \A i \in Writes : Running(hist[i]) = Frame("main_loop", "increment")
    /\ LoopDone => Cardinality(Increments) = cycles

\* C11, amended: the counter is written only by main_loop(), by increments of
\* 1; every completed cycle but the last of the run is followed by exactly
\* one increment, so a run makes one increment fewer than it completes
\* cycles: 10 increments for 11 cycles.
IncrementBetweenCycles ==
    /\ Writes = Increments
    /\ \A i \in Writes : Running(hist[i]) = Frame("main_loop", "increment")
    /\ cycles = 0 => Increments = {}
    /\ cycles > 0 => Cardinality(Increments) \in {cycles - 1, cycles}
    /\ InCycle => Cardinality(Increments) = cycles
    /\ At("main_loop", "check") => Cardinality(Increments) = cycles - 1
    /\ LoopDone => (Cardinality(Increments) = cycles - 1 /\ cycles = 11)

IncrementBetweenCyclesWitness ==
    LoopDone /\ Cardinality(Increments) = 10 /\ cycles = 11

\* C12: global_counter changes only in the continuation branch of
\* main_loop(), and there by exactly 1: the statement global_counter++ adds
\* 1 and every other step leaves the counter as it was.
CounterFrame ==
    [][/\ At("main_loop", "increment") => global_counter' = global_counter + 1
       /\ ~At("main_loop", "increment") => global_counter' = global_counter
      ]_vars

CounterFrameWitness ==
    /\ At("main_loop", "recurse")
    /\ global_counter = 4
    /\ Cardinality(Writes) = 4

\* C13: the loop controller is a two-state machine: it starts running with
\* counter 0; the check after a cycle keeps it running exactly when the
\* counter is below 10 and moves it to done exactly when the counter is 10
\* or more; once done it stays done, starts no cycle and leaves the counter
\* alone.
TwoStateMachine ==
    /\ [](started = 0 => (~LoopDone /\ global_counter = 0))
    /\ [][At("main_loop", "check") =>
             /\ (global_counter < 10) <=> (At("main_loop", "increment"))'
             /\ (global_counter >= 10) <=> LoopDone'
             /\ ~LoopDone
         ]_vars
    /\ [][At("main_loop", "increment") =>
             (global_counter' = global_counter + 1 /\ ~LoopDone')]_vars
    /\ [][At("main_loop", "recurse") =>
             (At("main_loop", "process")' /\ ~LoopDone')]_vars
    /\ [][LoopDone =>
             /\ LoopDone'
             /\ started' = started
             /\ trace' = trace
             /\ global_counter' = global_counter
         ]_vars

TwoStateMachineWitness ==
    LoopDone /\ Depth("main_loop") = 4 /\ global_counter = 10

----------------------------------------------------------------------------
(* The counted loop the recursion is compared with:                        *)
(*   run a cycle; while (counter < 10) { counter++; run a cycle; }         *)
(* computed from counter value c: the collaborator calls it makes, the     *)
(* values its counter takes, the cycles it runs and its final counter.     *)

RECURSIVE CountedLoopFrom(_)
CountedLoopFrom(r) ==
    IF r.counter < Threshold
    THEN CountedLoopFrom([counter  |-> r.counter + 1,
                          calls    |-> r.calls \o Pipeline,
                          counters |-> Append(r.counters, r.counter + 1),
                          cycles   |-> r.cycles + 1])
    ELSE r

CountedLoop(c) ==
    CountedLoopFrom([counter |-> c, calls |-> Pipeline, counters |-> <<c>>,
                     cycles |-> 1])

\* the states of the current run in which global_counter shows a new value
Changes ==
    {i \in DOMAIN hist : i = 1 \/ hist[i].counter # hist[i - 1].counter}

\* the values global_counter has taken in the current run, in order
CounterValues ==
    [k \in 1..Cardinality(Changes) |->
        hist[CHOOSE i \in Changes :
                 Cardinality({j \in Changes : j <= i}) = k].counter]

IsPrefix(a, b) == Len(a) <= Len(b) /\ a = SubSeq(b, 1, Len(a))

\* C14: the recursive main_loop() is equivalent to the counted loop run from
\* counter 0: at every point the recursion's collaborator calls and counter
\* values are a prefix of the loop's, its k-th cycle runs at the counter
\* value of the loop's k-th cycle, and when the recursion is done both have
\* made the same calls, taken the same counter values, and run 11 cycles
\* ending with counter 10.
LoopEquivalent ==
    LET ref == CountedLoop(0)
    IN  /\ IsPrefix(trace, ref.calls)
        /\ IsPrefix(CounterValues, ref.counters)
        /\ InCycle =>
              /\ started <= ref.cycles
              /\ global_counter = ref.counters[started]
        /\ LoopDone =>
              /\ trace = ref.calls
              /\ CounterValues = ref.counters
              /\ cycles = ref.cycles
              /\ global_counter = ref.counter
              /\ cycles = 11
              /\ global_counter = 10

LoopEquivalentWitness ==
    /\ LoopDone
    /\ trace = CountedLoop(0).calls
    /\ CounterValues = CountedLoop(0).counters
    /\ Len(CounterValues) = 11

\* C15: from the start of the first cycle on, the number of cycles started
\* is global_counter + 1 wherever a cycle is in progress or has completed
\* and is being or has been checked (the k-th cycle runs entirely with
\* counter k - 1); between the increment and the start of the next cycle the
\* two are equal.
StartedIsCounterPlusOne ==
    /\ started \in 0..11
    /\ (InCycle \/ At("main_loop", "check") \/ At("main_loop", "increment")
          \/ LoopDone) => started = global_counter + 1
    /\ (At("main_loop", "recurse") \/ At("main_loop", "process")) =>
          started = global_counter

StartedIsCounterPlusOneWitness ==
    /\ At("calculate_interest", "body")
    /\ started = 11
    /\ global_counter = 10

\* C16 as stated: never more than 11 active invocations of main_loop(), and
\* while the loop is still descending their number is global_counter + 1.
DepthIsCounterPlusOne ==
    /\ Depth("main_loop") <= 11
    /\ (Depth("main_loop") > 0 /\ ~LoopDone) =>
          Depth("main_loop") = global_counter + 1

\* C16, amended: never more than 11 active invocations of main_loop(); while
\* the loop is still descending their number is global_counter + 1, except
\* between global_counter++ and the recursive call, where it is
\* global_counter; the recursive call is the last statement of an
\* invocation, so while the frames unwind no collaborator is called and the
\* counter is not modified.
DepthBounded ==
    /\ [](Depth("main_loop") <= 11)
    /\ []((Depth("main_loop") > 0 /\ ~LoopDone) =>
             Depth("main_loop") = global_counter
                 + (IF At("main_loop", "recurse") THEN 0 ELSE 1))
    /\ [][At("main_loop", "recurse") => At("main_loop", "process")']_vars
    /\ [](\A i \in DOMAIN stack :
             (stack[i].fn = "main_loop" /\ i < Len(stack)
                  /\ stack[i + 1].fn = "main_loop") =>
                stack[i].pc = "return")
    /\ [][(LoopDone /\ Depth("main_loop") > 0) =>
             /\ LoopDone'
             /\ Depth("main_loop")' = Depth("main_loop") - 1
             /\ trace' = trace
             /\ started' = started
             /\ global_counter' = global_counter
         ]_vars

DepthBoundedWitness ==
    /\ At("main_loop", "recurse")
    /\ Depth("main_loop") = 10
    /\ global_counter = 10

\* the larger of two integers
Max(a, b) == IF a >= b THEN a ELSE b

\* the value of global_counter when the current invocation of main_loop()
\* by main() began
EntryCounter == hist[1].counter

\* the invocation of main_loop() by main() has returned
LoopReturned == At("main", "return") \/ Exited

\* C17: invoked with global_counter = c, main_loop() runs exactly
\* max(10 - c, 0) + 1 cycles, never more, and leaves the counter at
\* max(c, 10); invoked again after an invocation has returned it runs
\* exactly one cycle and leaves the counter where it was: at 10 whenever the
\* earlier invocation began with a counter of at most 10.
NonFreshCounter ==
    /\ started <= Max(10 - EntryCounter, 0) + 1
    /\ global_counter >= EntryCounter
    /\ global_counter <= Max(EntryCounter, 10)
    /\ LoopReturned =>
          /\ cycles = Max(10 - EntryCounter, 0) + 1
          /\ global_counter = Max(EntryCounter, 10)
    /\ run > 1 =>
          /\ started <= 1
          /\ global_counter = EntryCounter
          /\ EntryCounter = Max(prev[1].counter, 10)
    /\ (run > 1 /\ LoopReturned) => cycles = 1
    /\ (run > 1 /\ LoopReturned /\ prev[1].counter <= 10) =>
          global_counter = 10

NonFreshCounterWitness ==
    /\ run = 2
    /\ At("main", "return")
    /\ prev[1].counter = 3
    /\ Len(prev[Len(prev)].trace) = 24
    /\ cycles = 1
    /\ global_counter = 10

====
